---------------------------- MODULE Spec2Model ----------------------------
(***************************************************************************)
(* A model of generate_dummy_dataset_no_ticker.py: the balanced generator  *)
(* of a dummy financial-news dataset.  One run seeds the random module,    *)
(* computes the per-category quota, samples the records category by        *)
(* category, shuffles them, writes them as CSV inside one `with' block and *)
(* prints a summary and three examples.                                    *)
(*                                                                         *)
(* Strings are sequences of one-character strings, so that str.format,     *)
(* the `+ "."' concatenations, the `in' substring test and the CSV quoting *)
(* are computed character by character.  The random module is a seedable   *)
(* deterministic generator: its state is a number, random.seed sets it and *)
(* every draw advances it (a 16-bit linear congruential generator stands   *)
(* for the Mersenne Twister).  The output file is the text on disk.        *)
(***************************************************************************)
EXTENDS Integers, Sequences, FiniteSets, TLC

VARIABLES
  num_samples,          \* argument of generate_dataset
  seed,                 \* argument of random.seed
  emptied,              \* index of the category whose template list is empty (0: none)
  noTickers,            \* TRUE when the ticker catalog is empty
  pc,                   \* position of the run in the script
  rng,                  \* state of the random module
  samples_per_category, \* the quota
  ci,                   \* outer loop: index of the current category
  i,                    \* inner loop: samples drawn for the current category
  data,                 \* the in-memory list of records
  disk,                 \* the output file on disk: [exists, text]
  fileOpen,             \* the handle f is open
  opens,                \* number of times the run opened the output file
  pending,              \* exception in flight inside the with block
  err,                  \* exception that ended the run
  summary,              \* what the run printed: total and per-category counts
  examples,             \* the example records the run printed
  run,                  \* number of the current run of the script
  prev                  \* what the previous run of the script left

vars == << num_samples, seed, emptied, noTickers, pc, rng, samples_per_category,
           ci, i, data, disk, fileOpen, opens, pending, err, summary, examples,
           run, prev >>

----------------------------------------------------------------------------
\* Bounds of the model.

\* generate_dataset is called with num_samples in -MaxNegSamples .. MaxSamples.
MaxSamples == 25
MaxNegSamples == 1
\* random.seed is called with 42 (the script's seed) or a seed in 0 .. MaxSeed.
MaxSeed == 2
\* The script is run at most MaxRuns times in a row.
MaxRuns == 2

\* The configurations of the template catalog: intact (0), or with the list of the
\* first, the seventh or the last category emptied.
EmptiedChoices == {0, 1, 7, 12}

\* States the random module of a fresh process may start in (seeded from the
\* operating system when random.seed is not called).
Entropy == {4711, 60000}

Seeds == {42} \cup (0 .. MaxSeed)

----------------------------------------------------------------------------
\* The catalogs.

\* TICKERS: the stock tickers, each a sequence of characters.
TICKERS ==
  << <<"N","V","D","A">>,
     <<"A","A","P","L">>,
     <<"G","O","O","G">>,
     <<"M","S","F","T">>,
     <<"T","S","L","A">>,
     <<"A","M","Z","N">>,
     <<"M","E","T","A">>,
     <<"J","P","M">>,
     <<"V">>,
     <<"U","N","H">>,
     <<"N","F","L","X">>,
     <<"A","M","D">>,
     <<"I","N","T","C">>,
     <<"C","S","C","O">>,
     <<"O","R","C","L">>,
     <<"I","B","M">>,
     <<"C","R","M">>,
     <<"A","D","B","E">>,
     <<"P","Y","P","L">>,
     <<"Q","C","O","M">>,
     <<"B","A">>,
     <<"C","A","T">>,
     <<"D","I","S">>,
     <<"G","E">>,
     <<"G","M">>,
     <<"F">>,
     <<"W","M","T">>,
     <<"T","G","T">>,
     <<"H","D">>,
     <<"L","O","W">> >>

\* NEWS_TEMPLATES: the ordered dictionary category -> templates, as the sequence of
\* its <<key, value>> items in insertion order. Strings are sequences of characters.
NEWS_TEMPLATES ==
  <<
     << <<"G","a","i","n","s"," ","s","l","i","g","h","t","l","y">>,
        << <<"{","t","i","c","k","e","r","}"," ","e","d","g","e","s"," ","u","p"," ","s","l","i","g","h","t","l","y"," ","o","n"," ","n","e","u","t","r","a","l"," ","t","r","a","d","i","n","g"," ","s","e","s","s","i","o","n">>,
           <<"{","t","i","c","k","e","r","}"," ","r","i","s","e","s"," ","s","l","i","g","h","t","l","y"," ","a","f","t","e","r"," ","m","i","n","o","r"," ","p","o","s","i","t","i","v","e"," ","n","e","w","s">>,
           <<"{","t","i","c","k","e","r","}"," ","a","d","v","a","n","c","e","s"," ","s","l","i","g","h","t","l","y"," ","o","n"," ","l","o","w"," ","v","o","l","u","m","e"," ","t","r","a","d","i","n","g">>,
           <<"{","t","i","c","k","e","r","}"," ","c","l","i","m","b","s"," ","s","l","i","g","h","t","l","y"," ","f","o","l","l","o","w","i","n","g"," ","s","m","a","l","l"," ","u","p","g","r","a","d","e">>,
           <<"{","t","i","c","k","e","r","}"," ","m","o","v","e","s"," ","u","p"," ","s","l","i","g","h","t","l","y"," ","i","n"," ","q","u","i","e","t"," ","s","e","s","s","i","o","n">> >> >>,
     << <<"G","a","i","n","s"," ","m","o","d","e","s","t","l","y">>,
        << <<"{","t","i","c","k","e","r","}"," ","g","a","i","n","s"," ","m","o","d","e","s","t","l","y"," ","o","n"," ","e","n","c","o","u","r","a","g","i","n","g"," ","e","a","r","n","i","n","g","s"," ","d","a","t","a">>,
           <<"{","t","i","c","k","e","r","}"," ","r","i","s","e","s"," ","m","o","d","e","s","t","l","y"," ","a","f","t","e","r"," ","p","o","s","i","t","i","v","e"," ","a","n","a","l","y","s","t"," ","c","o","m","m","e","n","t">>,
           <<"{","t","i","c","k","e","r","}"," ","a","d","v","a","n","c","e","s"," ","m","o","d","e","s","t","l","y"," ","f","o","l","l","o","w","i","n","g"," ","g","o","o","d"," ","n","e","w","s">>,
           <<"{","t","i","c","k","e","r","}"," ","c","l","i","m","b","s"," ","m","o","d","e","s","t","l","y"," ","o","n"," ","s","e","c","t","o","r"," ","s","t","r","e","n","g","t","h">>,
           <<"{","t","i","c","k","e","r","}"," ","i","m","p","r","o","v","e","s"," ","m","o","d","e","s","t","l","y"," ","a","f","t","e","r"," ","u","p","b","e","a","t"," ","g","u","i","d","a","n","c","e">> >> >>,
     << <<"G","a","i","n","s"," ","m","o","d","e","r","a","t","e","l","y">>,
        << <<"{","t","i","c","k","e","r","}"," ","g","a","i","n","s"," ","m","o","d","e","r","a","t","e","l","y"," ","o","n"," ","s","t","r","o","n","g"," ","e","a","r","n","i","n","g","s"," ","b","e","a","t">>,
           <<"{","t","i","c","k","e","r","}"," ","r","i","s","e","s"," ","m","o","d","e","r","a","t","e","l","y"," ","a","f","t","e","r"," ","p","a","r","t","n","e","r","s","h","i","p"," ","a","n","n","o","u","n","c","e","m","e","n","t">>,
           <<"{","t","i","c","k","e","r","}"," ","a","d","v","a","n","c","e","s"," ","m","o","d","e","r","a","t","e","l","y"," ","f","o","l","l","o","w","i","n","g"," ","r","e","v","e","n","u","e"," ","g","r","o","w","t","h">>,
           <<"{","t","i","c","k","e","r","}"," ","c","l","i","m","b","s"," ","m","o","d","e","r","a","t","e","l","y"," ","o","n"," ","p","o","s","i","t","i","v","e"," ","o","u","t","l","o","o","k">>,
           <<"{","t","i","c","k","e","r","}"," ","r","a","l","l","i","e","s"," ","m","o","d","e","r","a","t","e","l","y"," ","a","f","t","e","r"," ","a","n","a","l","y","s","t"," ","u","p","g","r","a","d","e">> >> >>,
     << <<"G","a","i","n","s"," ","s","t","r","o","n","g","l","y">>,
        << <<"{","t","i","c","k","e","r","}"," ","g","a","i","n","s"," ","s","t","r","o","n","g","l","y"," ","o","n"," ","e","x","c","e","p","t","i","o","n","a","l"," ","q","u","a","r","t","e","r","l","y"," ","r","e","s","u","l","t","s">>,
           <<"{","t","i","c","k","e","r","}"," ","s","u","r","g","e","s"," ","s","t","r","o","n","g","l","y"," ","a","f","t","e","r"," ","m","a","j","o","r"," ","d","e","a","l"," ","a","n","n","o","u","n","c","e","m","e","n","t">>,
           <<"{","t","i","c","k","e","r","}"," ","a","d","v","a","n","c","e","s"," ","s","t","r","o","n","g","l","y"," ","f","o","l","l","o","w","i","n","g"," ","b","r","e","a","k","t","h","r","o","u","g","h"," ","n","e","w","s">>,
           <<"{","t","i","c","k","e","r","}"," ","r","a","l","l","i","e","s"," ","s","t","r","o","n","g","l","y"," ","o","n"," ","i","m","p","r","e","s","s","i","v","e"," ","p","r","o","f","i","t"," ","m","a","r","g","i","n","s">>,
           <<"{","t","i","c","k","e","r","}"," ","c","l","i","m","b","s"," ","s","t","r","o","n","g","l","y"," ","a","f","t","e","r"," ","s","e","c","u","r","i","n","g"," ","k","e","y"," ","c","o","n","t","r","a","c","t">> >> >>,
     << <<"G","a","i","n","s"," ","s","h","a","r","p","l","y">>,
        << <<"{","t","i","c","k","e","r","}"," ","g","a","i","n","s"," ","s","h","a","r","p","l","y"," ","o","n"," ","b","l","o","c","k","b","u","s","t","e","r"," ","e","a","r","n","i","n","g","s"," ","s","u","r","p","r","i","s","e">>,
           <<"{","t","i","c","k","e","r","}"," ","s","u","r","g","e","s"," ","s","h","a","r","p","l","y"," ","a","f","t","e","r"," ","t","r","a","n","s","f","o","r","m","a","t","i","v","e"," ","a","c","q","u","i","s","i","t","i","o","n">>,
           <<"{","t","i","c","k","e","r","}"," ","s","o","a","r","s"," ","s","h","a","r","p","l","y"," ","f","o","l","l","o","w","i","n","g"," ","g","a","m","e","-","c","h","a","n","g","i","n","g"," ","i","n","n","o","v","a","t","i","o","n">>,
           <<"{","t","i","c","k","e","r","}"," ","r","a","l","l","i","e","s"," ","s","h","a","r","p","l","y"," ","o","n"," ","e","x","p","l","o","s","i","v","e"," ","r","e","v","e","n","u","e"," ","g","r","o","w","t","h">>,
           <<"{","t","i","c","k","e","r","}"," ","j","u","m","p","s"," ","s","h","a","r","p","l","y"," ","a","f","t","e","r"," ","l","a","n","d","m","a","r","k"," ","p","a","r","t","n","e","r","s","h","i","p"," ","d","e","a","l">> >> >>,
     << <<"D","e","c","l","i","n","e","s"," ","s","l","i","g","h","t","l","y">>,
        << <<"{","t","i","c","k","e","r","}"," ","e","d","g","e","s"," ","d","o","w","n"," ","s","l","i","g","h","t","l","y"," ","o","n"," ","p","r","o","f","i","t","-","t","a","k","i","n","g">>,
           <<"{","t","i","c","k","e","r","}"," ","d","i","p","s"," ","s","l","i","g","h","t","l","y"," ","i","n"," ","l","i","g","h","t"," ","t","r","a","d","i","n","g"," ","s","e","s","s","i","o","n">>,
           <<"{","t","i","c","k","e","r","}"," ","f","a","l","l","s"," ","s","l","i","g","h","t","l","y"," ","o","n"," ","m","i","n","o","r"," ","c","o","n","c","e","r","n","s">>,
           <<"{","t","i","c","k","e","r","}"," ","s","l","i","p","s"," ","s","l","i","g","h","t","l","y"," ","a","f","t","e","r"," ","n","e","u","t","r","a","l"," ","n","e","w","s">>,
           <<"{","t","i","c","k","e","r","}"," ","d","r","o","p","s"," ","s","l","i","g","h","t","l","y"," ","o","n"," ","l","o","w"," ","v","o","l","u","m","e">> >> >>,
     << <<"D","e","c","l","i","n","e","s"," ","m","o","d","e","s","t","l","y">>,
        << <<"{","t","i","c","k","e","r","}"," ","d","e","c","l","i","n","e","s"," ","m","o","d","e","s","t","l","y"," ","o","n"," ","m","i","x","e","d"," ","e","a","r","n","i","n","g","s"," ","r","e","p","o","r","t">>,
           <<"{","t","i","c","k","e","r","}"," ","f","a","l","l","s"," ","m","o","d","e","s","t","l","y"," ","a","f","t","e","r"," ","c","a","u","t","i","o","u","s"," ","a","n","a","l","y","s","t"," ","n","o","t","e">>,
           <<"{","t","i","c","k","e","r","}"," ","d","r","o","p","s"," ","m","o","d","e","s","t","l","y"," ","f","o","l","l","o","w","i","n","g"," ","w","e","a","k"," ","g","u","i","d","a","n","c","e">>,
           <<"{","t","i","c","k","e","r","}"," ","s","l","i","p","s"," ","m","o","d","e","s","t","l","y"," ","o","n"," ","s","e","c","t","o","r"," ","w","e","a","k","n","e","s","s">>,
           <<"{","t","i","c","k","e","r","}"," ","r","e","t","r","e","a","t","s"," ","m","o","d","e","s","t","l","y"," ","a","f","t","e","r"," ","d","i","s","a","p","p","o","i","n","t","i","n","g"," ","d","a","t","a">> >> >>,
     << <<"D","e","c","l","i","n","e","s"," ","m","o","d","e","r","a","t","e","l","y">>,
        << <<"{","t","i","c","k","e","r","}"," ","d","e","c","l","i","n","e","s"," ","m","o","d","e","r","a","t","e","l","y"," ","o","n"," ","e","a","r","n","i","n","g","s"," ","m","i","s","s">>,
           <<"{","t","i","c","k","e","r","}"," ","f","a","l","l","s"," ","m","o","d","e","r","a","t","e","l","y"," ","a","f","t","e","r"," ","a","n","a","l","y","s","t"," ","d","o","w","n","g","r","a","d","e">>,
           <<"{","t","i","c","k","e","r","}"," ","d","r","o","p","s"," ","m","o","d","e","r","a","t","e","l","y"," ","f","o","l","l","o","w","i","n","g"," ","r","e","v","e","n","u","e"," ","s","h","o","r","t","f","a","l","l">>,
           <<"{","t","i","c","k","e","r","}"," ","s","l","i","d","e","s"," ","m","o","d","e","r","a","t","e","l","y"," ","o","n"," ","r","e","g","u","l","a","t","o","r","y"," ","c","o","n","c","e","r","n","s">>,
           <<"{","t","i","c","k","e","r","}"," ","w","e","a","k","e","n","s"," ","m","o","d","e","r","a","t","e","l","y"," ","a","f","t","e","r"," ","g","u","i","d","a","n","c","e"," ","c","u","t">> >> >>,
     << <<"D","e","c","l","i","n","e","s"," ","s","t","r","o","n","g","l","y">>,
        << <<"{","t","i","c","k","e","r","}"," ","d","e","c","l","i","n","e","s"," ","s","t","r","o","n","g","l","y"," ","o","n"," ","m","a","j","o","r"," ","e","a","r","n","i","n","g","s"," ","d","i","s","a","p","p","o","i","n","t","m","e","n","t">>,
           <<"{","t","i","c","k","e","r","}"," ","f","a","l","l","s"," ","s","t","r","o","n","g","l","y"," ","a","f","t","e","r"," ","l","o","s","i","n","g"," ","k","e","y"," ","c","u","s","t","o","m","e","r">>,
           <<"{","t","i","c","k","e","r","}"," ","d","r","o","p","s"," ","s","t","r","o","n","g","l","y"," ","f","o","l","l","o","w","i","n","g"," ","w","e","a","k"," ","o","u","t","l","o","o","k">>,
           <<"{","t","i","c","k","e","r","}"," ","s","l","i","d","e","s"," ","s","t","r","o","n","g","l","y"," ","o","n"," ","s","i","g","n","i","f","i","c","a","n","t"," ","c","o","n","c","e","r","n","s">>,
           <<"{","t","i","c","k","e","r","}"," ","t","u","m","b","l","e","s"," ","s","t","r","o","n","g","l","y"," ","a","f","t","e","r"," ","u","n","e","x","p","e","c","t","e","d"," ","b","a","d"," ","n","e","w","s">> >> >>,
     << <<"D","e","c","l","i","n","e","s"," ","s","h","a","r","p","l","y">>,
        << <<"{","t","i","c","k","e","r","}"," ","d","e","c","l","i","n","e","s"," ","s","h","a","r","p","l","y"," ","o","n"," ","c","a","t","a","s","t","r","o","p","h","i","c"," ","e","a","r","n","i","n","g","s"," ","m","i","s","s">>,
           <<"{","t","i","c","k","e","r","}"," ","p","l","u","n","g","e","s"," ","s","h","a","r","p","l","y"," ","a","f","t","e","r"," ","s","c","a","n","d","a","l"," ","r","e","v","e","l","a","t","i","o","n">>,
           <<"{","t","i","c","k","e","r","}"," ","f","a","l","l","s"," ","s","h","a","r","p","l","y"," ","f","o","l","l","o","w","i","n","g"," ","C","E","O"," ","r","e","s","i","g","n","a","t","i","o","n">>,
           <<"{","t","i","c","k","e","r","}"," ","c","r","a","s","h","e","s"," ","s","h","a","r","p","l","y"," ","o","n"," ","r","e","g","u","l","a","t","o","r","y"," ","p","r","o","b","e"," ","a","n","n","o","u","n","c","e","m","e","n","t">>,
           <<"{","t","i","c","k","e","r","}"," ","t","u","m","b","l","e","s"," ","s","h","a","r","p","l","y"," ","a","f","t","e","r"," ","p","r","o","d","u","c","t"," ","r","e","c","a","l","l">> >> >>,
     << <<"E","d","g","e","s"," ","u","p"," ","s","l","i","g","h","t","l","y">>,
        << <<"{","t","i","c","k","e","r","}"," ","e","d","g","e","s"," ","u","p"," ","s","l","i","g","h","t","l","y"," ","a","s"," ","m","a","r","k","e","t"," ","r","e","m","a","i","n","s"," ","c","a","u","t","i","o","u","s">>,
           <<"{","t","i","c","k","e","r","}"," ","i","n","c","h","e","s"," ","u","p"," ","s","l","i","g","h","t","l","y"," ","o","n"," ","m","i","x","e","d"," ","s","e","n","t","i","m","e","n","t">>,
           <<"{","t","i","c","k","e","r","}"," ","t","i","c","k","s"," ","u","p"," ","s","l","i","g","h","t","l","y"," ","i","n"," ","r","a","n","g","e","-","b","o","u","n","d"," ","t","r","a","d","i","n","g">>,
           <<"{","t","i","c","k","e","r","}"," ","r","i","s","e","s"," ","f","r","a","c","t","i","o","n","a","l","l","y"," ","i","n"," ","q","u","i","e","t"," ","s","e","s","s","i","o","n">>,
           <<"{","t","i","c","k","e","r","}"," ","a","d","v","a","n","c","e","s"," ","m","a","r","g","i","n","a","l","l","y"," ","o","n"," ","l","o","w"," ","v","o","l","a","t","i","l","i","t","y">> >> >>,
     << <<"E","d","g","e","s"," ","d","o","w","n"," ","s","l","i","g","h","t","l","y">>,
        << <<"{","t","i","c","k","e","r","}"," ","e","d","g","e","s"," ","d","o","w","n"," ","s","l","i","g","h","t","l","y"," ","a","s"," ","i","n","v","e","s","t","o","r","s"," ","t","a","k","e"," ","p","a","u","s","e">>,
           <<"{","t","i","c","k","e","r","}"," ","i","n","c","h","e","s"," ","d","o","w","n"," ","s","l","i","g","h","t","l","y"," ","o","n"," ","u","n","c","e","r","t","a","i","n","t","y">>,
           <<"{","t","i","c","k","e","r","}"," ","t","i","c","k","s"," ","d","o","w","n"," ","s","l","i","g","h","t","l","y"," ","i","n"," ","s","i","d","e","w","a","y","s"," ","t","r","a","d","i","n","g">>,
           <<"{","t","i","c","k","e","r","}"," ","f","a","l","l","s"," ","f","r","a","c","t","i","o","n","a","l","l","y"," ","i","n"," ","q","u","i","e","t"," ","s","e","s","s","i","o","n">>,
           <<"{","t","i","c","k","e","r","}"," ","d","e","c","l","i","n","e","s"," ","m","a","r","g","i","n","a","l","l","y"," ","o","n"," ","p","r","o","f","i","t","-","t","a","k","i","n","g">> >> >>
  >>

\* categories = list(NEWS_TEMPLATES.keys())
categories == [k \in 1 .. Len(NEWS_TEMPLATES) |-> NEWS_TEMPLATES[k][1]]

\* The ticker catalog of the run's configuration.
Tickers == IF noTickers THEN << >> ELSE TICKERS

\* Mutant: the templates are taken from the next category's list.
TemplatesShifted(k) ==
  IF k = emptied THEN << >> ELSE NEWS_TEMPLATES[(k % Len(NEWS_TEMPLATES)) + 1][2]

\* NEWS_TEMPLATES[category] in the run's configuration.
Templates(k) == IF k = emptied THEN << >> ELSE NEWS_TEMPLATES[k][2]

----------------------------------------------------------------------------
\* Strings.

Period == << "." >>

\* sub in s
Contains(sub, s) ==
  \E k \in 1 .. (Len(s) - Len(sub) + 1) : SubSeq(s, k, k + Len(sub) - 1) = sub

\* Index of the first "}" of s (0 when there is none).
CloseBrace(s) ==
  IF \E k \in 1 .. Len(s) : s[k] = "}"
  THEN CHOOSE k \in 1 .. Len(s) : s[k] = "}" /\ \A j \in 1 .. (k - 1) : s[j] # "}"
  ELSE 0

\* template.format(ticker=ticker): every replacement field {ticker} becomes the ticker.
RECURSIVE Format(_, _)
Format(template, ticker) ==
  IF template = << >> THEN << >>
  ELSE IF Head(template) = "{"
       THEN LET close == CloseBrace(template)
                name  == SubSeq(template, 2, close - 1)
            IN  (IF name = << "t", "i", "c", "k", "e", "r" >> THEN ticker ELSE << >>)
                \o Format(SubSeq(template, close + 1, Len(template)), ticker)
       ELSE << Head(template) >> \o Format(Tail(template), ticker)

\* Mutant: the period is not appended to the news.
NewsNoPeriod(template, ticker) == Format(template, ticker)

\* news = template.format(ticker=ticker) + "."
News(template, ticker) == Format(template, ticker) \o Period

\* change = f"{category}."
Change(category) == category \o Period

Record(ticker, template, category) ==
  [ticker |-> ticker, news |-> News(template, ticker), change |-> Change(category)]

----------------------------------------------------------------------------
\* The random module.

\* Mutant: random.seed is not called, the generator keeps the state it started in.
SeedRandomSkipped(state, a) == state

\* random.seed(a)
SeedRandom(state, a) == a % 65536

RngNext(state) == (state * 25173 + 13849) % 65536

\* The number below n that the generator, advanced to `state', returns.
RandBelow(state, n) == (state \div 16) % n

\* random.shuffle(x): for i in reversed(range(1, len(x))): j = randbelow(i + 1);
\* x[i], x[j] = x[j], x[i].  Positions are 1-based here.
RECURSIVE ShuffleFrom(_, _, _)
ShuffleFrom(x, k, state) ==
  IF k < 2 THEN [x |-> x, rng |-> state]
  ELSE LET s1 == RngNext(state)
           j  == RandBelow(s1, k) + 1
       IN  ShuffleFrom([x EXCEPT ![k] = x[j], ![j] = x[k]], k - 1, s1)

Shuffled(x, state) == ShuffleFrom(x, Len(x), state)

\* Mutant: the quota is rounded up.
QuotaCeil(n, k) == (n + k - 1) \div k

\* samples_per_category = num_samples // len(categories)
Quota(n, k) == n \div k

----------------------------------------------------------------------------
\* csv.DictWriter with the default (excel) dialect.

\* Mutant: the field names in another order.
fieldnamesSwapped ==
  << << "t", "i", "c", "k", "e", "r" >>, << "c", "h", "a", "n", "g", "e" >>,
     << "n", "e", "w", "s" >> >>

\* fieldnames = ['ticker', 'news', 'change']
fieldnames ==
  << << "t", "i", "c", "k", "e", "r" >>, << "n", "e", "w", "s" >>,
     << "c", "h", "a", "n", "g", "e" >> >>

\* rowdict[key]
Field(d, key) ==
  CASE key = << "t", "i", "c", "k", "e", "r" >> -> d.ticker
    [] key = << "n", "e", "w", "s" >> -> d.news
    [] key = << "c", "h", "a", "n", "g", "e" >> -> d.change

\* QUOTE_MINIMAL: a field is quoted when it holds the delimiter, the quote
\* character or a character of the line terminator.
NeedsQuote(f) == \E k \in 1 .. Len(f) : f[k] \in {",", "\"", "\r", "\n"}

RECURSIVE DoubleQuotes(_)
DoubleQuotes(f) ==
  IF f = << >> THEN << >>
  ELSE (IF Head(f) = "\"" THEN << "\"", "\"" >> ELSE << Head(f) >>)
       \o DoubleQuotes(Tail(f))

CsvField(f) ==
  IF NeedsQuote(f) THEN << "\"" >> \o DoubleQuotes(f) \o << "\"" >> ELSE f

RECURSIVE CsvJoin(_)
CsvJoin(fields) ==
  IF Len(fields) = 0 THEN << >>
  ELSE IF Len(fields) = 1 THEN CsvField(fields[1])
  ELSE CsvField(fields[1]) \o << "," >> \o CsvJoin(Tail(fields))

\* writer.writerow(fields): the line written, with the "\r\n" line terminator.
CsvLine(fields) == CsvJoin(fields) \o << "\r", "\n" >>

\* DictWriter.writeheader(): the row of the field names.
HeaderLine == CsvLine(fieldnames)

\* DictWriter._dict_to_list(rowdict)
DictToList(d) == [k \in 1 .. Len(fieldnames) |-> Field(d, fieldnames[k])]

\* writer.writerows(rows), the first n of them: the text written.
RECURSIVE RowsText(_, _)
RowsText(rows, n) ==
  IF n = 0 THEN << >>
  ELSE RowsText(rows, n - 1) \o CsvLine(DictToList(rows[n]))

----------------------------------------------------------------------------
\* The run.

NoDisk == [exists |-> FALSE, text |-> << >>]
NoSummary == [printed |-> FALSE, total |-> 0, counts |-> << >>]
NoPrev == [ended |-> "none", err |-> "none", disk |-> NoDisk, data |-> << >>]

Init ==
  /\ num_samples \in (0 - MaxNegSamples) .. MaxSamples
  /\ seed \in Seeds
  /\ emptied \in EmptiedChoices
  /\ noTickers \in BOOLEAN
  /\ pc = "main"
  /\ rng \in Entropy
  /\ samples_per_category = 0
  /\ ci = 0
  /\ i = 0
  /\ data = << >>
  /\ disk = NoDisk
  /\ fileOpen = FALSE
  /\ opens = 0
  /\ pending = "none"
  /\ err = "none"
  /\ summary = NoSummary
  /\ examples = << >>
  /\ run = 1
  /\ prev = NoPrev

inputs == << num_samples, seed, emptied, noTickers >>

\* __main__: random.seed(seed); generate_dataset(num_samples, ...) up to data = [].
Main ==
  /\ pc = "main"
  /\ rng' = SeedRandom(rng, seed)
  /\ samples_per_category' = Quota(num_samples, Len(categories))
  /\ data' = << >>
  /\ ci' = 0
  /\ i' = 0
  /\ pc' = "for_category"
  /\ UNCHANGED << inputs, disk, fileOpen, opens, pending, err, summary, examples,
                  run, prev >>

\* for category in categories: templates = NEWS_TEMPLATES[category]
ForCategory ==
  /\ pc = "for_category"
  /\ IF ci < Len(categories)
     THEN /\ ci' = ci + 1
          /\ i' = 0
          /\ pc' = "for_sample"
     ELSE /\ pc' = "shuffle"
          /\ UNCHANGED << ci, i >>
  /\ UNCHANGED << inputs, rng, samples_per_category, data, disk, fileOpen, opens,
                  pending, err, summary, examples, run, prev >>

\* for i in range(samples_per_category): one iteration, or the end of the loop.
\* random.choice of an empty sequence raises IndexError.
Sample ==
  /\ pc = "for_sample"
  /\ IF i < samples_per_category
     THEN IF Len(Tickers) = 0 \/ Len(Templates(ci)) = 0
          THEN /\ pc' = "error"
               /\ err' = "IndexError"
               /\ rng' = IF Len(Tickers) = 0 THEN rng ELSE RngNext(rng)
               /\ UNCHANGED << i, data >>
          ELSE LET s1 == RngNext(rng)
                   s2 == RngNext(s1)
                   ticker == Tickers[RandBelow(s1, Len(Tickers)) + 1]
                   template == Templates(ci)[RandBelow(s2, Len(Templates(ci))) + 1]
               IN  /\ data' = Append(data, Record(ticker, template, categories[ci]))
                   /\ rng' = s2
                   /\ i' = i + 1
                   /\ UNCHANGED << pc, err >>
     ELSE /\ pc' = "for_category"
          /\ UNCHANGED << i, data, rng, err >>
  /\ UNCHANGED << inputs, samples_per_category, ci, disk, fileOpen, opens, pending,
                  summary, examples, run, prev >>

\* random.shuffle(data)
Shuffle ==
  /\ pc = "shuffle"
  /\ LET r == Shuffled(data, rng)
     IN  /\ data' = r.x
         /\ rng' = r.rng
  /\ pc' = "open"
  /\ UNCHANGED << inputs, samples_per_category, ci, i, disk, fileOpen, opens,
                  pending, err, summary, examples, run, prev >>

\* with open(output_file, 'w', ...) as f: mode 'w' creates or truncates the file.
\* The open may fail with an OSError (IOError), which ends the run.
Open ==
  /\ pc = "open"
  /\ \/ /\ disk' = [exists |-> TRUE, text |-> << >>]
        /\ fileOpen' = TRUE
        /\ opens' = opens + 1
        /\ pc' = "writeheader"
        /\ UNCHANGED err
     \/ /\ pc' = "error"
        /\ err' = "IOError"
        /\ UNCHANGED << disk, fileOpen, opens >>
  /\ UNCHANGED << inputs, rng, samples_per_category, ci, i, data, pending, summary,
                  examples, run, prev >>

\* writer.writeheader(), which may fail with an OSError inside the with block.
WriteHeader ==
  /\ pc = "writeheader"
  /\ \/ /\ disk' = [disk EXCEPT !.text = @ \o HeaderLine]
        /\ pc' = "writerows"
        /\ UNCHANGED pending
     \/ /\ pending' = "IOError"
        /\ pc' = "with_exit"
        /\ UNCHANGED disk
  /\ UNCHANGED << inputs, rng, samples_per_category, ci, i, data, fileOpen, opens,
                  err, summary, examples, run, prev >>

\* The numbers of rows after which a failing writerows is taken to fail: before
\* the first row, half way, and before the last row.
FailPoints(rows) == {0, Len(rows) \div 2, Len(rows) - 1} \cap (0 .. (Len(rows) - 1))

\* writer.writerows(data): all the rows, or an OSError after the first n of them.
WriteRows ==
  /\ pc = "writerows"
  /\ \/ /\ disk' = [disk EXCEPT !.text = @ \o RowsText(data, Len(data))]
        /\ UNCHANGED pending
     \/ \E n \in FailPoints(data) :
          /\ disk' = [disk EXCEPT !.text = @ \o RowsText(data, n)]
          /\ pending' = "IOError"
  /\ pc' = "with_exit"
  /\ UNCHANGED << inputs, rng, samples_per_category, ci, i, data, fileOpen, opens,
                  err, summary, examples, run, prev >>

\* Mutant: the handle is closed only when the block is left normally.
HandleLeakOnError(exception) == exception # "none"

\* f.__exit__: whether the handle is still open once the with block is left.
HandleAfterWith(exception) == FALSE

\* The with block is left, normally or by the exception in flight.
WithExit ==
  /\ pc = "with_exit"
  /\ fileOpen' = HandleAfterWith(pending)
  /\ IF pending = "none"
     THEN /\ pc' = "report"
          /\ UNCHANGED err
     ELSE /\ pc' = "error"
          /\ err' = pending
  /\ pending' = "none"
  /\ UNCHANGED << inputs, rng, samples_per_category, ci, i, data, disk, opens,
                  summary, examples, run, prev >>

\* Mutant: the category is looked for in the news.
InNews(category, d) == Contains(category, d.news)

\* category in d['change']
InChange(category, d) == Contains(category, d.change)

\* sum(1 for d in data if category in d['change'])
CountFor(category, rows) ==
  Cardinality({k \in 1 .. Len(rows) : InChange(category, rows[k])})

\* The prints of the total and of the category distribution.
Report ==
  /\ pc = "report"
  /\ summary' = [printed |-> TRUE,
                 total   |-> Len(data),
                 counts  |-> [k \in 1 .. Len(categories) |-> CountFor(categories[k], data)]]
  /\ pc' = "examples"
  /\ UNCHANGED << inputs, rng, samples_per_category, ci, i, data, disk, fileOpen,
                  opens, pending, err, examples, run, prev >>

\* for i in range(3): ex = data[i]; print ...   data[i] raises IndexError when
\* the list has no element i.
ShowExamples ==
  /\ pc = "examples"
  /\ IF Len(data) < 3
     THEN /\ examples' = data
          /\ pc' = "error"
          /\ err' = "IndexError"
     ELSE /\ examples' = SubSeq(data, 1, 3)
          /\ pc' = "done"
          /\ UNCHANGED err
  /\ UNCHANGED << inputs, rng, samples_per_category, ci, i, data, disk, fileOpen,
                  opens, pending, summary, run, prev >>

Ended == pc \in {"done", "error"}

\* The script is run again, as a new process, with the same arguments: only the
\* file on disk is left of the run before.
Rerun ==
  /\ Ended
  /\ run < MaxRuns
  /\ prev' = [ended |-> pc, err |-> err, disk |-> disk, data |-> data]
  /\ run' = run + 1
  /\ pc' = "main"
  /\ rng' \in Entropy
  /\ samples_per_category' = 0
  /\ ci' = 0
  /\ i' = 0
  /\ data' = << >>
  /\ fileOpen' = FALSE
  /\ opens' = 0
  /\ pending' = "none"
  /\ err' = "none"
  /\ summary' = NoSummary
  /\ examples' = << >>
  /\ UNCHANGED << inputs, disk >>

Next ==
  \/ Main
  \/ ForCategory
  \/ Sample
  \/ Shuffle
  \/ Open
  \/ WriteHeader
  \/ WriteRows
  \/ WithExit
  \/ Report
  \/ ShowExamples
  \/ Rerun

Spec == Init /\ [][Next]_vars

----------------------------------------------------------------------------
\* Reading the file back: the standard reader of delimited text (csv.reader with
\* the default dialect), over the lines of the text.

\* Position k of text ends a line: "\n", or "\r" not followed by "\n".
IsLineEnd(text, k) ==
  \/ text[k] = "\n"
  \/ text[k] = "\r" /\ (k = Len(text) \/ text[k + 1] # "\n")

LineEnds(text) ==
  {k \in 1 .. Len(text) : IsLineEnd(text, k)}
    \cup (IF Len(text) > 0 THEN {Len(text)} ELSE {})

\* The lines of text, each with its line ending.
Lines(text) ==
  LET ends == LineEnds(text)
      nth(n) == CHOOSE e \in ends : Cardinality({x \in ends : x <= e}) = n
  IN  [n \in 1 .. Cardinality(ends) |->
         SubSeq(text, (IF n = 1 THEN 0 ELSE nth(n - 1)) + 1, nth(n))]

StartRecord == [mode |-> "start_record", field |-> << >>, row |-> << >>]

\* One character through the reader's state machine.
StepChar(st, c) ==
  LET newline == c \in {"\r", "\n"}
      save    == [st EXCEPT !.row = Append(st.row, st.field), !.field = << >>]
  IN  CASE st.mode = "start_record" /\ newline -> [st EXCEPT !.mode = "eat_crnl"]
        [] st.mode \in {"start_record", "start_field"} /\ ~newline ->
             IF c = "\"" THEN [st EXCEPT !.mode = "in_quoted"]
             ELSE IF c = "," THEN [save EXCEPT !.mode = "start_field"]
             ELSE [st EXCEPT !.mode = "in_field", !.field = << c >>]
        [] st.mode = "start_field" /\ newline -> [save EXCEPT !.mode = "eat_crnl"]
        [] st.mode = "in_field" ->
             IF newline THEN [save EXCEPT !.mode = "eat_crnl"]
             ELSE IF c = "," THEN [save EXCEPT !.mode = "start_field"]
             ELSE [st EXCEPT !.field = Append(@, c)]
        [] st.mode = "in_quoted" ->
             IF c = "\"" THEN [st EXCEPT !.mode = "quote_in_quoted"]
             ELSE [st EXCEPT !.field = Append(@, c)]
        [] st.mode = "quote_in_quoted" ->
             IF c = "\"" THEN [st EXCEPT !.mode = "in_quoted", !.field = Append(@, c)]
             ELSE IF c = "," THEN [save EXCEPT !.mode = "start_field"]
             ELSE IF newline THEN [save EXCEPT !.mode = "eat_crnl"]
             ELSE [st EXCEPT !.mode = "in_field", !.field = Append(@, c)]
        [] st.mode = "eat_crnl" -> st

RECURSIVE ParseChars(_, _, _)
ParseChars(line, k, st) ==
  IF k > Len(line) THEN st
  ELSE LET next == StepChar(st, line[k])
       IN  IF next.mode = "eat_crnl" /\ k = Len(line) THEN next
           ELSE ParseChars(line, k + 1, next)

\* The row of a record that ended.
Finalize(st) ==
  IF st.mode \in {"eat_crnl", "start_record"} THEN st.row ELSE Append(st.row, st.field)

\* A quoted field that is still open at the end of a line goes on in the next line.
RECURSIVE ReadFrom(_, _, _, _)
ReadFrom(lines, k, st, rows) ==
  IF k > Len(lines)
  THEN IF st.mode = "start_record" THEN rows ELSE Append(rows, Finalize(st))
  ELSE LET st2 == ParseChars(lines[k], 1, st)
       IN  IF st2.mode = "in_quoted"
           THEN ReadFrom(lines, k + 1, st2, rows)
           ELSE ReadFrom(lines, k + 1, StartRecord, Append(rows, Finalize(st2)))

ReadRows(text) == ReadFrom(Lines(text), 1, StartRecord, << >>)

TypeOK ==
  /\ pc \in {"main", "for_category", "for_sample", "shuffle", "open", "writeheader",
             "writerows", "with_exit", "report", "examples", "done", "error"}
  /\ err \in {"none", "IndexError", "IOError"}
  /\ rng \in 0 .. 65535

----------------------------------------------------------------------------
\* Notions the properties share.

\* The sampling loops have run to their end in this run.
SamplingDone ==
  \/ pc \in {"shuffle", "open", "writeheader", "writerows", "with_exit", "report",
             "examples", "done"}
  \/ pc = "error" /\ (err = "IOError" \/ summary.printed)

\* The shuffle has been done in this run.
ShuffleDone == SamplingDone /\ pc # "shuffle"

\* The with block was left without an exception: the file is written and closed.
FileWritten ==
  \/ pc \in {"report", "examples", "done"}
  \/ pc = "error" /\ summary.printed

\* A catalog is malformed: an empty template list, or no ticker.
Malformed == emptied # 0 \/ noTickers

\* Number of the records of rows that carry exactly the label of category k.
Labelled(rows, k) ==
  Cardinality({r \in 1 .. Len(rows) : rows[r].change = Change(categories[k])})

EndsWithOnePeriod(s) ==
  /\ Len(s) >= 1
  /\ s[Len(s)] = "."
  /\ Len(s) >= 2 => s[Len(s) - 1] # "."

Range(s) == {s[k] : k \in 1 .. Len(s)}

----------------------------------------------------------------------------
RecordFormatOK(d) ==
  /\ EndsWithOnePeriod(d.news)
  /\ Contains(d.ticker, d.news)
  /\ EndsWithOnePeriod(d.change)
  /\ \E k \in 1 .. Len(categories) :
       SubSeq(d.change, 1, Len(d.change) - 1) = categories[k]

\* The records that the draws of a ticker and of a template of a category can make.
PossibleRecords ==
  UNION {{Record(tk, t, NEWS_TEMPLATES[k][1]) :
            t \in Range(NEWS_TEMPLATES[k][2]), tk \in Range(TICKERS)} :
         k \in 1 .. Len(NEWS_TEMPLATES)}

EveryDrawWellFormed == \A d \in PossibleRecords : RecordFormatOK(d)

C3_Determinism ==
  (run > 1) =>
     /\ ShuffleDone => data = prev.data
     /\ (Ended /\ err # "IOError" /\ prev.err # "IOError") =>
           /\ pc = prev.ended
           /\ err = prev.err
           /\ data = prev.data
           /\ disk = prev.disk

C3_Witness ==
  /\ run = 2
  /\ pc = "done"
  /\ prev.ended = "done"
  /\ Len(data) = 2 * Len(categories)
  /\ disk = prev.disk
  /\ \E r \in 1 .. (Len(data) - 1) : data[r].change # data[r + 1].change

\* C4: with a malformed catalog and a positive num_samples the run never gets to
\* the shuffle or beyond, and ends only with a ConfigurationError.
C4_MalformedCatalogRejected ==
  (Malformed /\ num_samples > 0) =>
     /\ ~ShuffleDone
     /\ pc # "shuffle"
     /\ pc = "error" => err = "ConfigurationError"

\* C5: with 0 < num_samples < 12 the run raises no error of its own: it ends in
\* an error only when the file could not be opened or written.
C5_SmallRunCompletes ==
  (0 < num_samples /\ num_samples < Len(categories) /\ ~Malformed /\ pc = "error")
     => err = "IOError"

\* C6: with a malformed catalog or a non-positive num_samples the output file is
\* never opened, created or written and no summary is printed.
C6_NoIOOnConfigurationError ==
  (run = 1 /\ (Malformed \/ num_samples <= 0)) =>
     /\ opens = 0
     /\ ~fileOpen
     /\ disk = NoDisk
     /\ ~summary.printed

MadeFrom ==
  [k \in 1 .. Len(NEWS_TEMPLATES) |->
     {<< tk, Format(t, tk) \o Period >> :
        t \in Range(NEWS_TEMPLATES[k][2]), tk \in Range(TICKERS)}]

\* C8: every record's ticker is in the configured ticker catalog, its change names
\* a key of the template catalog, and its news is made from a template of that
\* category's list and from no template of another category's list.
C8_CatalogCoverage ==
  (pc \in {"shuffle", "writerows"} \/ Ended) =>
     \A r \in 1 .. Len(data) :
        LET d == data[r]
        IN  /\ d.ticker \in Range(Tickers)
            /\ \E k \in 1 .. Len(NEWS_TEMPLATES) :
                 /\ d.change = NEWS_TEMPLATES[k][1] \o Period
                 /\ k # emptied
                 /\ << d.ticker, d.news >> \in MadeFrom[k]
                 /\ \A j \in (1 .. Len(NEWS_TEMPLATES)) \ {k} :
                      << d.ticker, d.news >> \notin MadeFrom[j]

C8_Witness ==
  /\ pc = "done"
  /\ Len(data) = 2 * Len(categories)

\* C9: the printed total is the number of records written, each printed count is
\* the number of records whose label is exactly that category's, the substring test
\* counts no record under another category, and, for a positive num_samples, every
\* count is num_samples div 12 and the counts add up to the total.
C9_Reporting ==
  summary.printed =>
     /\ summary.total = Len(data)
     /\ summary.total = Len(ReadRows(disk.text)) - 1
     /\ \A k \in 1 .. Len(categories) :
          /\ summary.counts[k] = Labelled(data, k)
          /\ \A r \in 1 .. Len(data) :
               Contains(categories[k], data[r].change)
                  => data[r].change = Change(categories[k])
          /\ num_samples > 0 => summary.counts[k] = num_samples \div Len(categories)
     /\ num_samples > 0 =>
          summary.total = Len(categories) * (num_samples \div Len(categories))

C9_Witness ==
  /\ summary.printed
  /\ summary.total = 2 * Len(categories)
  /\ \A k \in 1 .. Len(categories) : summary.counts[k] = 2

\* C10: the run opens the output file at most once, and only when all records are
\* sampled and shuffled; the file is open only inside the with block; the summary
\* is printed only with the file closed; no run begins or ends with the file open.
C10_FileLifecycle ==
  /\ opens <= 1
  /\ opens = 1 => ShuffleDone /\ pc # "open"
  /\ fileOpen => /\ pc \in {"writeheader", "writerows", "with_exit"}
                 /\ opens = 1
  /\ pc \in {"writeheader", "writerows", "with_exit"} => fileOpen
  /\ (pc \in {"report", "examples"} \/ summary.printed) => ~fileOpen /\ opens = 1
  /\ (Ended \/ pc = "main") => ~fileOpen

C10_Witness ==
  /\ pc = "error"
  /\ err = "IOError"
  /\ opens = 1
  /\ ~fileOpen
  /\ Len(disk.text) > Len(HeaderLine)

=============================================================================
